---------------------------- MODULE Spec2Model ----------------------------
(***************************************************************************)
(* WhatsApp chat analyser: the transcript parser (preprocessing.py), the   *)
(* substantive-message filter and the aggregations (helper.py), driven by  *)
(* the page script (app.py).                                               *)
(*                                                                         *)
(* Text is a sequence of tokens.  A token stands for a run of characters   *)
(* the scan pattern treats as a unit: a date "D/M/Y," (digits, slashes and *)
(* the comma), a time "H:MM am" (it holds a colon followed by a digit), or *)
(* a single character / word.  Every token is a record of the same shape:  *)
(*   k  kind, a b c  numeric fields, n  a width or flag.                   *)
(***************************************************************************)
EXTENDS Integers, Sequences, FiniteSets

VARIABLES raw, entries, pc, df, selected, view

vars == <<raw, entries, pc, df, selected, view>>

(***************************************************************************)
(* Bounds of the model.                                                    *)
(***************************************************************************)
MaxEntries == 3

(***************************************************************************)
(* Tokens.                                                                 *)
(***************************************************************************)
Tok(k) == [k |-> k, a |-> 0, b |-> 0, c |-> 0, n |-> 0]

\* "d/m/y," where the year is written with n digits
DateTok(d, m, y, n) == [k |-> "date", a |-> d, b |-> m, c |-> y, n |-> n]

\* "h:mi am" (pm = 0) or "h:mi pm" (pm = 1); n = 1 when the blank before
\* am/pm is the narrow no-break space U+202F
TimeTok(h, mi, pm, n) == [k |-> "time", a |-> h, b |-> mi, c |-> pm, n |-> n]

\* a word of two or more letters; a identifies the word
Word(i) == [k |-> "word", a |-> i, b |-> 0, c |-> 0, n |-> 0]

SP == Tok("sp")
NL == Tok("nl")
COLON == Tok("colon")
DASH == Tok("dash")
MEDIA == Tok("media")     \* the text <Media omitted>
EMOJI == Tok("emoji")     \* one character of emoji.EMOJI_DATA
URL == Tok("url")         \* one http://... address
DOT == Tok("dot")
QM == Tok("qm")

alice == <<Word(1)>>
bob == <<Word(2)>>
carol == <<Word(3)>>
hello == Word(4)
happy == Word(5)
joined == Word(6)

group_notification == <<Tok("group_notification")>>

(***************************************************************************)
(* preprocessing.py                                                        *)
(***************************************************************************)

\* data.replace('\u202f', ' '): the narrow no-break space becomes a blank
Normalize(s) ==
    [i \in DOMAIN s |-> IF s[i].k = "time" THEN [s[i] EXCEPT !.n = 0] ELSE s[i]]

\* \s
IsSpace(t) == t.k \in {"sp", "nl"}

\* a token holding the character ':'
HasColon(t) == t.k \in {"colon", "time"}

Min(S) == CHOOSE x \in S : \A y \in S : x <= y
Max(S) == CHOOSE x \in S : \A y \in S : x >= y

\* position of the first token at or after j that holds a colon, 0 if none
FirstColon(s, j) ==
    LET C == {c \in j..Len(s) : HasColon(s[c])}
    IN  IF C = {} THEN 0 ELSE Min(C)

\* (.+?)(?=(?:\n\d{1,2}/\d{1,2}/\d{2,4},)|\Z): the shortest non-empty body
\* starting at b is followed by a newline and a date, or by the end of input
BodyEnd(s, b) ==
    Min({f \in b..Len(s) :
            \/ f = Len(s)
            \/ f + 2 <= Len(s) /\ s[f + 1].k = "nl" /\ s[f + 2].k = "date"})

\* one attempt of the pattern at position i
MatchAt(s, i) ==
    LET c == FirstColon(s, i + 6)
    IN  IF /\ i + 5 <= Len(s)
           /\ s[i].k = "date"          \* \d{1,2}/\d{1,2}/\d{2,4},
           /\ IsSpace(s[i + 1])
           /\ s[i + 2].k = "time"      \* \d{1,2}:\d{2}\s(?:am|pm)
           /\ IsSpace(s[i + 3])        \* \s-\s
           /\ s[i + 4].k = "dash"
           /\ IsSpace(s[i + 5])
           /\ c > i + 6                \* ([^:]+?): at least one character
           /\ s[c].k = "colon"
           /\ c + 2 <= Len(s)
           /\ IsSpace(s[c + 1])        \* \s after the colon
        THEN [ok |-> TRUE,
              date |-> s[i], time |-> s[i + 2],
              sender |-> SubSeq(s, i + 6, c - 1),
              text |-> SubSeq(s, c + 2, BodyEnd(s, c + 2)),
              end |-> BodyEnd(s, c + 2)]
        ELSE [ok |-> FALSE, date |-> SP, time |-> SP,
              sender |-> <<>>, text |-> <<>>, end |-> i]

\* pattern.findall(data): non-overlapping matches, left to right
RECURSIVE FindFrom(_, _)
FindFrom(s, i) ==
    IF i > Len(s) THEN <<>>
    ELSE LET m == MatchAt(s, i)
         IN  IF m.ok THEN <<m>> \o FindFrom(s, m.end + 1)
             ELSE FindFrom(s, i + 1)

findall(s) == FindFrom(s, 1)

\* str.strip()
RECURSIVE LStrip(_)
LStrip(s) == IF s # <<>> /\ IsSpace(Head(s)) THEN LStrip(Tail(s)) ELSE s

RECURSIVE RStrip(_)
RStrip(s) ==
    IF s # <<>> /\ IsSpace(s[Len(s)]) THEN RStrip(SubSeq(s, 1, Len(s) - 1)) ELSE s

strip(s) == RStrip(LStrip(s))

\* f"{s}: {t}"
user_message(m) == m.sender \o <<COLON, SP>> \o strip(m.text)

\* position of the first ": " in msg, 0 if none
FindSep(msg) ==
    LET P == {p \in 1..(Len(msg) - 1) : msg[p].k = "colon" /\ msg[p + 1].k = "sp"}
    IN  IF P = {} THEN 0 ELSE Min(P)

\* the loop body of lines 31-40: msg.split(": ", 1) or the notification sentinel
SplitMessage(msg) ==
    LET p == FindSep(msg)
    IN  IF p # 0
        THEN [Sender |-> SubSeq(msg, 1, p - 1), Message |-> SubSeq(msg, p + 2, Len(msg))]
        ELSE [Sender |-> group_notification, Message |-> msg]

IsLeap(y) == (y % 4 = 0 /\ y % 100 # 0) \/ y % 400 = 0

DaysInMonth(y, m) ==
    IF m = 2 THEN (IF IsLeap(y) THEN 29 ELSE 28)
    ELSE IF m \in {4, 6, 9, 11} THEN 30 ELSE 31

\* %y: two digits, 69..99 are 19xx and 0..68 are 20xx
FullYear(yy) == IF yy >= 69 THEN 1900 + yy ELSE 2000 + yy

\* does "date, time" parse under '%d/%m/%y, %I:%M %p'
DateParses(d, t) ==
    /\ d.n = 2                             \* %y takes exactly two digits
    /\ d.b \in 1..12                       \* %m
    /\ d.a >= 1                            \* %d
    /\ d.a <= DaysInMonth(FullYear(d.c), d.b)
    /\ t.a \in 1..12                       \* %I
    /\ t.b \in 0..59                       \* %M

\* the timestamp: %I with %p gives the hour of the day
Timestamp(d, t) ==
    [year |-> FullYear(d.c), month |-> d.b, day |-> d.a,
     hour |-> (t.a % 12) + 12 * t.c, minute |-> t.b]

\* as to_datetime, called with errors='coerce': it never raises
to_datetime_coerce(ms) == TRUE

\* pd.to_datetime(df['message_date'], format=...): every element must parse
to_datetime(ms) == \A i \in DOMAIN ms : DateParses(ms[i].date, ms[i].time)

Record(m) ==
    LET sm == SplitMessage(user_message(m))
    IN  [date |-> Timestamp(m.date, m.time), Sender |-> sm.Sender, Message |-> sm.Message]

\* preprocess(data): the records, or an error raised by to_datetime
preprocess(data) ==
    LET ms == findall(Normalize(data))
    IN  IF to_datetime(ms)
        THEN [error |-> FALSE, matches |-> ms, df |-> [i \in DOMAIN ms |-> Record(ms[i])]]
        ELSE [error |-> TRUE, matches |-> ms, df |-> <<>>]

(***************************************************************************)
(* helper.py                                                               *)
(***************************************************************************)

Contains(msg, kind) == \E i \in DOMAIN msg : msg[i].k = kind

Count(msg, kind) == Cardinality({i \in DOMAIN msg : msg[i].k = kind})

RECURSIVE SumSeq(_)
SumSeq(q) == IF q = <<>> THEN 0 ELSE Head(q) + SumSeq(Tail(q))

RECURSIVE Flatten(_)
Flatten(q) == IF q = <<>> THEN <<>> ELSE Head(q) \o Flatten(Tail(q))

Range(q) == {q[i] : i \in DOMAIN q}

\* number of occurrences of x in the sequence q
Occurrences(q, x) == Cardinality({i \in DOMAIN q : q[i] = x})

\* value_counts-like table of a sequence: item -> count
Tally(q) == [x \in Range(q) |-> Occurrences(q, x)]

\* the n entries of table f with the largest counts (all when there are fewer)
Largest(f, n) ==
    IF Cardinality(DOMAIN f) <= n THEN f
    ELSE LET T == CHOOSE T \in SUBSET (DOMAIN f) :
                      /\ Cardinality(T) = n
                      /\ \A x \in T, y \in (DOMAIN f) \ T : f[x] >= f[y]
         IN  [x \in T |-> f[x]]

IsSubstantive(r) ==
    /\ ~Contains(r.Message, "media")
    /\ r.Message # <<>>
    /\ r.Message \notin {<<DOT>>, <<QM>>}

filter_media(d) == SelectSeq(d, IsSubstantive)

\* df if selected == 'Overall' else df[df['Sender'] == selected]
Overall == <<Tok("Overall")>>

Scope(sel, d) ==
    IF sel = Overall THEN d ELSE SelectSeq(d, LAMBDA r : r.Sender = sel)

\* len(str.split()): the maximal runs of non-blank tokens
WordCount(msg) ==
    Cardinality({i \in DOMAIN msg :
                    ~IsSpace(msg[i]) /\ (i = 1 \/ IsSpace(msg[i - 1]))})

fetch_stats(sel, d) ==
    LET subset == Scope(sel, d)
        text_df == filter_media(subset)
    IN  [messages |-> Len(subset),
         words |-> SumSeq([i \in DOMAIN text_df |-> WordCount(text_df[i].Message)]),
         media |-> Cardinality({i \in DOMAIN subset : Contains(subset[i].Message, "media")}),
         emojis |-> SumSeq([i \in DOMAIN text_df |-> Count(text_df[i].Message, "emoji")]),
         urls |-> SumSeq([i \in DOMAIN d |-> Count(d[i].Message, "url")])]

Senders(d) == {d[i].Sender : i \in DOMAIN d}

TopSenders == 10

messages_per_user(d) ==
    LET text_df == filter_media(d)
    IN  Largest(Tally([i \in DOMAIN text_df |-> text_df[i].Sender]), TopSenders)

\* as Percent2, formatted with int(x): the fraction is cut off
PercentWhole(num, den) == ((num * 100) \div den) * 100

\* f"{x:.2f}" of num / den * 100, in hundredths of a percent (ties to even)
Percent2(num, den) ==
    LET q == (num * 10000) \div den
        r == (num * 10000) % den
    IN  IF 2 * r > den \/ (2 * r = den /\ q % 2 = 1) THEN q + 1 ELSE q

avg_msg_per_user(d) ==
    LET total_messages == Len(d)
        counts == Tally([i \in DOMAIN d |-> d[i].Sender])
    IN  [s \in DOMAIN counts |-> Percent2(counts[s], total_messages)]

\* days before 1 January of year y, as date.toordinal counts them
DaysBeforeYear(y) ==
    (y - 1) * 365 + ((y - 1) \div 4) - ((y - 1) \div 100) + ((y - 1) \div 400)

RECURSIVE DaysBeforeMonth(_, _)
DaysBeforeMonth(y, m) ==
    IF m = 1 THEN 0 ELSE DaysBeforeMonth(y, m - 1) + DaysInMonth(y, m - 1)

Ordinal(ts) == DaysBeforeYear(ts.year) + DaysBeforeMonth(ts.year, ts.month) + ts.day

\* dt.day_name(): 0 = Monday .. 6 = Sunday
Weekday(ts) == (Ordinal(ts) + 6) % 7

\* the pivot of lines 88-91: one row per hour present, one column per weekday
\* present, absent combinations filled with 0
activity_heatmap(d) ==
    LET text_df == filter_media(d)
        hours == {text_df[i].date.hour : i \in DOMAIN text_df}
        days == {Weekday(text_df[i].date) : i \in DOMAIN text_df}
    IN  [cell \in hours \X days |->
            Cardinality({i \in DOMAIN text_df :
                            /\ text_df[i].date.hour = cell[1]
                            /\ Weekday(text_df[i].date) = cell[2]})]

\* resample('D').size(): every day from the first to the last, empty days 0
daily_volume(d) ==
    LET text_df == filter_media(d)
        ords == {Ordinal(text_df[i].date) : i \in DOMAIN text_df}
    IN  IF ords = {} THEN <<>>
        ELSE [j \in 1..(Max(ords) - Min(ords) + 1) |->
                Cardinality({i \in DOMAIN text_df :
                                Ordinal(text_df[i].date) = Min(ords) + j - 1})]

MonthIndex(ts) == ts.year * 12 + ts.month

\* resample('M').size(): every month from the first to the last
monthly_volume(d) ==
    LET text_df == filter_media(d)
        ms == {MonthIndex(text_df[i].date) : i \in DOMAIN text_df}
    IN  IF ms = {} THEN <<>>
        ELSE [j \in 1..(Max(ms) - Min(ms) + 1) |->
                Cardinality({i \in DOMAIN text_df :
                                MonthIndex(text_df[i].date) = Min(ms) + j - 1})]

\* a number written with two or more digits, as a term
Num(x) == [k |-> "num", a |-> x, b |-> 0, c |-> 0, n |-> 0]

PM == Tok("pm")

\* the terms CountVectorizer(stop_words='english') takes from one token: runs
\* of two or more word characters that are no stop word ("am" is one, "pm" not)
CvTerms(t) ==
    IF t.k = "word" THEN <<t>>
    ELSE IF t.k = "url" THEN <<URL>>
    ELSE IF t.k = "date"
         THEN (IF t.a >= 10 THEN <<Num(t.a)>> ELSE <<>>)
              \o (IF t.b >= 10 THEN <<Num(t.b)>> ELSE <<>>) \o <<Num(t.c)>>
    ELSE IF t.k = "time"
         THEN (IF t.a >= 10 THEN <<Num(t.a)>> ELSE <<>>) \o <<Num(t.b)>>
              \o (IF t.c = 1 THEN <<PM>> ELSE <<>>)
    ELSE <<>>

MaxFeatures == 20

\* top_n_words(df, n=20): fit_transform raises ValueError on an empty vocabulary
top_n_words(d) ==
    LET text_df == filter_media(d)
        terms == Flatten([i \in DOMAIN text_df |->
                            Flatten([j \in DOMAIN text_df[i].Message |->
                                        CvTerms(text_df[i].Message[j])])])
    IN  IF terms = <<>> THEN [raised |-> TRUE, table |-> <<>>]
        ELSE [raised |-> FALSE, table |-> Largest(Tally(terms), MaxFeatures)]

\* the words WordCloud counts in one token: numbers and its stop words
\* ("http", "am") are left out
WcWords(t) ==
    IF t.k \in {"word", "url"} THEN <<t>>
    ELSE IF t.k = "time" /\ t.c = 1 THEN <<PM>>
    ELSE <<>>

\* generate_wordcloud(df): WordCloud.generate raises ValueError without a word
generate_wordcloud(d) ==
    LET text_df == filter_media(d)
        ws == Flatten([i \in DOMAIN text_df |->
                            Flatten([j \in DOMAIN text_df[i].Message |->
                                        WcWords(text_df[i].Message[j])])])
    IN  IF ws = <<>> THEN [raised |-> TRUE, table |-> <<>>]
        ELSE [raised |-> FALSE, table |-> Tally(ws)]

message_type_counts(d) ==
    LET media == Cardinality({i \in DOMAIN d : Contains(d[i].Message, "media")})
        links == Cardinality({i \in DOMAIN d : Contains(d[i].Message, "url")})
    IN  [text |-> Len(d) - media, media |-> media, links |-> links]

\* TextBlob(m).sentiment.polarity in tenths: the mean over the words that
\* carry a polarity; of the words used here only "happy" does (0.8)
Polarity(msg) == IF \E i \in DOMAIN msg : msg[i] = happy THEN 8 ELSE 0

WindowDays == 7

\* resample(window)['sentiment'].mean(): one row per window from the day of
\* the first message on; the mean of a window without a message is NaN
resample_mean(text_df) ==
    LET ords == {Ordinal(text_df[i].date) : i \in DOMAIN text_df}
        In(j) == {i \in DOMAIN text_df :
                    (Ordinal(text_df[i].date) - Min(ords)) \div WindowDays = j - 1}
    IN  IF ords = {} THEN <<>>
        ELSE [j \in 1..((Max(ords) - Min(ords)) \div WindowDays + 1) |->
                [date |-> Min(ords) + (j - 1) * WindowDays,
                 nan |-> In(j) = {},
                 sum |-> SumSeq([i \in DOMAIN text_df |->
                                    IF i \in In(j) THEN Polarity(text_df[i].Message) ELSE 0]),
                 count |-> Cardinality(In(j))]]

\* as sentiment_time_series, with .dropna() after the mean
sentiment_time_series_dropna(d) ==
    SelectSeq(resample_mean(filter_media(d)), LAMBDA r : ~r.nan)

sentiment_time_series(d) == resample_mean(filter_media(d))

TopEmojis == 10

top_emojis(d) ==
    LET text_df == filter_media(d)
        all_ems == Flatten([i \in DOMAIN text_df |->
                              SelectSeq(text_df[i].Message, LAMBDA t : t.k = "emoji")])
    IN  Largest(Tally(all_ems), TopEmojis)

(***************************************************************************)
(* The uploaded transcripts: entries as their author wrote them.           *)
(***************************************************************************)

\* "date, time - sender: body"
Entry(d, t, s, b) == [date |-> d, time |-> t, sender |-> s, body |-> b, note |-> FALSE]

\* "date, time - text": a group event, without "sender: "
Notice(d, t, b) == [date |-> d, time |-> t, sender |-> <<>>, body |-> b, note |-> TRUE]

Render(e) ==
    <<e.date, SP, e.time, SP, DASH, SP>>
        \o (IF e.note THEN e.body ELSE e.sender \o <<COLON, SP>> \o e.body)

RECURSIVE Join(_)
Join(es) ==
    IF es = <<>> THEN <<>>
    ELSE IF Len(es) = 1 THEN Render(es[1])
    ELSE Render(es[1]) \o <<NL>> \o Join(Tail(es))

EntryPool ==
    { Entry(DateTok(1, 1, 23, 2), TimeTok(10, 0, 0, 0), alice, <<hello>>),
      Entry(DateTok(1, 1, 23, 2), TimeTok(10, 5, 0, 1), bob, <<MEDIA>>),
      Entry(DateTok(1, 1, 23, 2), TimeTok(10, 6, 0, 0), alice, <<QM>>),
      Entry(DateTok(2, 1, 23, 2), TimeTok(12, 5, 0, 0), alice, <<>>),
      Notice(DateTok(2, 1, 23, 2), TimeTok(9, 0, 1, 0), carol \o <<SP, joined>>),
      Entry(DateTok(20, 1, 23, 2), TimeTok(11, 30, 1, 1), bob, <<happy, SP, EMOJI, SP, URL>>),
      Entry(DateTok(1, 13, 23, 2), TimeTok(10, 0, 0, 0), bob, <<hello>>),
      Entry(DateTok(1, 1, 2023, 4), TimeTok(0, 30, 0, 0), carol, <<hello>>),
      Entry(DateTok(1, 1, 23, 2), TimeTok(13, 0, 1, 0), alice, <<hello>>),
      Entry(DateTok(2, 1, 23, 2), TimeTok(12, 5, 0, 0), carol,
            <<hello, COLON, SP, hello, NL, hello>>) }

Transcripts == UNION {[1..n -> EntryPool] : n \in 0..MaxEntries}

(***************************************************************************)
(* app.py: the page script.                                                *)
(***************************************************************************)

NoView ==
    [kpi |-> <<>>, mpu |-> <<>>, pct |-> <<>>, heat |-> <<>>, daily |-> <<>>,
     monthly |-> <<>>, words |-> <<>>, cloud |-> <<>>, types |-> <<>>,
     sent |-> <<>>, emojis |-> <<>>, failed |-> "none"]

Init ==
    /\ raw = <<>>
    /\ entries = <<>>
    /\ pc = "idle"
    /\ df = <<>>
    /\ selected = Overall
    /\ view = NoView

\* lines 37-44: a file is uploaded and parsed; the select box starts at Overall
Upload(es) ==
    /\ pc = "idle"
    /\ entries' = es
    /\ raw' = Join(es)
    /\ LET r == preprocess(Join(es))
       IN  /\ pc' = IF r.error THEN "parse_error" ELSE "ready"
           /\ df' = r.df
    /\ UNCHANGED <<selected, view>>

\* lines 43-44: the user picks a scope
SelectUser(u) ==
    /\ pc \in {"ready", "shown", "failed"}
    /\ u \in {Overall} \cup Senders(df)
    /\ u # selected
    /\ selected' = u
    /\ pc' = "ready"
    /\ view' = NoView
    /\ UNCHANGED <<raw, entries, df>>

\* lines 49-191: the Show Analysis button; the script stops at the first
\* call that raises
ShowAnalysis ==
    /\ pc = "ready"
    /\ LET df_sel == Scope(selected, df)
           topw == top_n_words(df_sel)
           wc == generate_wordcloud(df_sel)
           failed == IF topw.raised THEN "top_n_words"
                     ELSE IF wc.raised THEN "generate_wordcloud" ELSE "none"
       IN  /\ view' =
                [kpi |-> fetch_stats(selected, df),
                 mpu |-> IF selected = Overall THEN messages_per_user(df_sel) ELSE <<>>,
                 pct |-> IF selected = Overall THEN avg_msg_per_user(df_sel) ELSE <<>>,
                 heat |-> activity_heatmap(df_sel),
                 daily |-> daily_volume(df_sel),
                 monthly |-> monthly_volume(df_sel),
                 words |-> topw.table,
                 cloud |-> IF failed = "top_n_words" THEN <<>> ELSE wc.table,
                 types |-> IF failed = "none" THEN message_type_counts(df_sel) ELSE <<>>,
                 sent |-> IF failed = "none" THEN sentiment_time_series(df_sel) ELSE <<>>,
                 emojis |-> IF failed = "none" THEN top_emojis(df_sel) ELSE <<>>,
                 failed |-> failed]
           /\ pc' = IF failed = "none" THEN "shown" ELSE "failed"
    /\ UNCHANGED <<raw, entries, df, selected>>

Next ==
    \/ \E es \in Transcripts : Upload(es)
    \/ \E u \in {Overall} \cup Senders(df) : SelectUser(u)
    \/ ShowAnalysis

Spec == Init /\ [][Next]_vars

(***************************************************************************)
(* Properties.                                                             *)
(***************************************************************************)

Parsed == pc \in {"ready", "shown", "failed"}
Analysed == pc \in {"shown", "failed"}

\* an entry written as "D/M/YY, H:MM am|pm - Sender: body"
FixedFormat(e) ==
    /\ ~e.note
    /\ e.date.n = 2 /\ e.date.b \in 1..12 /\ e.date.a \in 1..28
    /\ e.time.a \in 1..12 /\ e.time.b \in 0..59

AllFixedFormat == \A i \in DOMAIN entries : FixedFormat(entries[i])

\* C1: a transcript of entries in the fixed format parses to as many records
\* as entries, in order, the i-th record holding the i-th sender and body.
C1_RoundTrip ==
    (pc # "idle" /\ AllFixedFormat) =>
        /\ Parsed
        /\ Len(df) = Len(entries)
        /\ \A i \in DOMAIN entries :
              i \in DOMAIN df /\ df[i].Sender = entries[i].sender
                              /\ df[i].Message = entries[i].body

\* C2: a text in which the scan pattern matches nothing ends in a parse
\* error, never in a (possibly empty) record set.
C2_NoMatchRaises ==
    (pc # "idle" /\ findall(Normalize(raw)) = <<>>) => pc = "parse_error"

\* a date-time fragment the fixed format rejects: a year not of two digits,
\* a month outside 1..12, an hour outside 1..12
BadFragment(m) == m.date.n # 2 \/ m.date.b \notin 1..12 \/ m.time.a \notin 1..12

\* C3: when a matched entry's date-time fragment does not parse, the whole
\* transcript fails and no record is returned; a result that is returned
\* holds one record for every matched entry.
C3_AllOrNothing ==
    pc # "idle" =>
        LET ms == findall(Normalize(raw))
        IN  /\ (\E i \in DOMAIN ms : BadFragment(ms[i])) =>
                    (pc = "parse_error" /\ df = <<>>)
            /\ Parsed => Len(df) = Len(ms)

\* a transcript with a matched entry that parses and one that does not
C3_Witness ==
    /\ pc = "parse_error"
    /\ LET ms == findall(Normalize(raw))
       IN  /\ \E i \in DOMAIN ms : BadFragment(ms[i])
           /\ \E i \in DOMAIN ms : ~BadFragment(ms[i])

\* C4: a record's Sender is the sentinel exactly when the text after " - "
\* has no ": "; a group-event line with a date-time prefix and no
\* "sender: text" gives a record with the sentinel and the whole line as Message.
C4_NotificationSentinel ==
    Parsed =>
        LET ms == findall(Normalize(raw))
        IN  /\ \A i \in DOMAIN df :
                  (df[i].Sender = group_notification)
                      <=> (FindSep(ms[i].sender \o <<COLON, SP>> \o ms[i].text) = 0)
            /\ \A j \in DOMAIN entries :
                  entries[j].note =>
                      \E i \in DOMAIN df : /\ df[i].Sender = group_notification
                                           /\ df[i].Message = entries[j].body

\* C5: the heatmap has a row for each hour 0..23 and a column for each
\* weekday Monday..Sunday, also when the substantive messages fall in only
\* some hours or weekdays (checked on scopes that hold a substantive message).
C5_HeatmapShape ==
    (Analysed /\ filter_media(Scope(selected, df)) # <<>>) =>
        DOMAIN view.heat = (0..23) \X (0..6)

\* C6: on a scope without a substantive message (here: of a transcript that
\* has records) every aggregation returns an empty or zero result; none raises.
C6_EmptyScopeNoError ==
    (Analysed /\ df # <<>> /\ filter_media(Scope(selected, df)) = <<>>) =>
        view.failed = "none"

RECURSIVE SumTable(_)
SumTable(f) ==
    IF DOMAIN f = {} THEN 0
    ELSE LET x == CHOOSE x \in DOMAIN f : TRUE
         IN  f[x] + SumTable([y \in (DOMAIN f) \ {x} |-> f[y]])

Abs(x) == IF x < 0 THEN -x ELSE x

\* C7: on a non-empty set the share table has one row per distinct sender
\* and the shares (hundredths of a percent) sum to 100.00 within 0.01 per row.
C7_SharesSumTo100 ==
    (Analysed /\ selected = Overall /\ df # <<>>) =>
        /\ DOMAIN view.pct = Senders(df)
        /\ Abs(SumTable(view.pct) - 10000) <= Cardinality(Senders(df))

\* three senders with a third each: 33.33 + 33.33 + 33.33
C7_Witness ==
    /\ Analysed /\ selected = Overall
    /\ Cardinality(DOMAIN view.pct) = 3
    /\ SumTable(view.pct) = 9999

\* C8: with a single sender as scope each of the five values is the one
\* that sender's messages alone give.
C8_StatsScoped ==
    (Analysed /\ selected # Overall) =>
        view.kpi = fetch_stats(Overall, Scope(selected, df))

\* C9: an entry with an empty body becomes a record of its own with its
\* sender and an empty Message, and every later entry a record of its own.
C9_EmptyBody ==
    (pc # "idle" /\ AllFixedFormat) =>
        \A i \in DOMAIN entries :
            entries[i].body = <<>> =>
                /\ Parsed
                /\ \E k \in DOMAIN df : /\ df[k].Sender = entries[i].sender
                                        /\ df[k].Message = <<>>
                /\ \A j \in (i + 1)..Len(entries) :
                      \E k \in DOMAIN df : /\ df[k].Sender = entries[j].sender
                                           /\ df[k].Message = entries[j].body

InDays(lo, hi) ==
    LET t == filter_media(Scope(selected, df))
    IN  {i \in DOMAIN t : Ordinal(t[i].date) \in lo..hi}

=============================================================================
